---- MODULE Spec2Model ----
(***************************************************************************)
(* Export_Microsoft_Todo.py: a script that obtains a Graph API token       *)
(* (silent, then interactive), saves the token cache, fetches the To Do    *)
(* lists and writes one document per non-empty list.                       *)
(*                                                                         *)
(* Text is a sequence of one-character strings, and so is a file name; a   *)
(* document is the sequence of the fragments handed to file.write, each    *)
(* fragment a sequence of strings (the literal parts of the f-string and   *)
(* the interpolated text). The text written to a document stays in the     *)
(* file object's buffer until the with block ends: the documents here are  *)
(* shorter than the buffer. The working directory has no subdirectory.     *)
(***************************************************************************)
EXTENDS Integers, Sequences, FiniteSets, TLC

\* ------------------------------------------------------------------ bounds
\* Longest input text of clean_markdown that CleanSpec enumerates.
MaxLen == 6
\* Most task lists in one response of the lists request.
MaxLists == 2
\* Latest second datetime.now() can report (the run starts at second 0).
MaxClock == 1

\* ------------------------------------------------------------- text helpers
\* The characters CleanSpec builds its inputs from.
Alphabet == {" ", "\t", "\n", "*", "_", "a"}

\* The characters of a string, as a sequence of one-character strings.
Chars(s) == [k \in 1..Len(s) |-> SubSeq(s, k, k)]

\* Python's \s and str.strip() whitespace (str.isspace) among the ASCII
\* characters: space, tab, newline, carriage return, form feed, and, written
\* as the characters themselves, U+000B and U+001C to U+001F. Text is ASCII
\* here: a character beyond U+007F has no string of its own (how it is read
\* depends on the platform's encoding), so the whitespace beyond ASCII
\* (U+0085, U+00A0, U+1680, U+2000 to U+200A, U+2028, U+2029, U+202F, U+205F,
\* U+3000) is not represented.
IsSpace(c) ==
    c \in {" ", "\t", "\n", "\r", "\f",
           "", "", "", "", ""}

SetMax(S) == CHOOSE m \in S : \A n \in S : n <= m

\* First position at or after i that holds no whitespace (greedy \s*).
RECURSIVE SkipWs(_, _)
SkipWs(s, i) == IF i <= Len(s) /\ IsSpace(s[i]) THEN SkipWs(s, i + 1) ELSE i

\* First position at or after i that does not hold character c (greedy c*).
RECURSIVE RunEnd(_, _, _)
RunEnd(s, i, c) == IF i <= Len(s) /\ s[i] = c THEN RunEnd(s, i + 1, c) ELSE i

\* Where "\s*$" (MULTILINE) ends when it starts at lo and the whitespace run
\* ends at hi: the regex engine backs off from hi to the last position where
\* $ matches (end of text, or just before a newline). 0: no match.
EolBack(s, lo, hi) ==
    LET C == {m \in lo..hi : m = Len(s) + 1 \/ s[m] = "\n"}
    IN  IF C = {} THEN 0 ELSE SetMax(C)

Has(s, k, c) == k <= Len(s) /\ s[k] = c

\* Length of the emphasis marker of pattern p at position k, 0 when none:
\*   p = 1: (\*\*|__)    p = 2: (\*\*|_)    p = 3: _{2,}
MarkerLen(p, s, k) ==
    CASE p = 1 -> IF (Has(s, k, "*") /\ Has(s, k + 1, "*"))
                     \/ (Has(s, k, "_") /\ Has(s, k + 1, "_"))
                  THEN 2 ELSE 0
      [] p = 2 -> IF Has(s, k, "*") /\ Has(s, k + 1, "*") THEN 2
                  ELSE IF Has(s, k, "_") THEN 1 ELSE 0
      [] OTHER -> LET n == RunEnd(s, k, "_") - k IN IF n >= 2 THEN n ELSE 0

\* re.match of pattern p at position i of s: the position just after the
\* match, or 0 when the pattern does not match at i.
\*   1: ^\s*(\*\*|__)\s*$   2: ^\s*(\*\*|_)\s*$   3: ^\s*_{2,}\s*$
\*   4: \n{3,}              5: " +$"              (all MULTILINE)
MatchEnd(p, s, i) ==
    CASE p \in {1, 2, 3} ->
             IF ~(i = 1 \/ s[i - 1] = "\n") THEN 0
             ELSE LET k  == SkipWs(s, i)
                      ml == MarkerLen(p, s, k)
                  IN  IF ml = 0 THEN 0
                      ELSE EolBack(s, k + ml, SkipWs(s, k + ml))
      [] p = 4 -> LET j == RunEnd(s, i, "\n") IN IF j - i >= 3 THEN j ELSE 0
      [] OTHER -> LET j == RunEnd(s, i, " ")
                  IN  IF j > i /\ (j = Len(s) + 1 \/ s[j] = "\n") THEN j ELSE 0

\* re.sub(pattern p, repl, s) from position i on: leftmost non-overlapping
\* matches are replaced, every other character is copied.
RECURSIVE Sub(_, _, _, _)
Sub(p, s, i, repl) ==
    IF i > Len(s) THEN <<>>
    ELSE LET e == MatchEnd(p, s, i)
         IN  IF e > 0 THEN repl \o Sub(p, s, e, repl)
             ELSE <<s[i]>> \o Sub(p, s, i + 1, repl)

\* str.strip(): leading and trailing whitespace removed.
RECURSIVE RStrip(_)
RStrip(s) == IF s # <<>> /\ IsSpace(s[Len(s)]) THEN RStrip(SubSeq(s, 1, Len(s) - 1)) ELSE s

Strip(s) == LET r == RStrip(s) IN SubSeq(r, SkipWs(r, 1), Len(r))

clean_markdown(content) ==
    LET c1 == Sub(1, content, 1, <<>>)
        c2 == Sub(2, c1, 1, <<>>)
        c3 == Sub(3, c2, 1, <<>>)
        c4 == Sub(4, c3, 1, <<"\n", "\n">>)
        c5 == Sub(5, c4, 1, <<>>)
    IN  Strip(c5)

\* The characters sanitize_filename replaces.
InvalidFilenameChars == {"<", ">", ":", "\"", "/", "\\", "|", "?", "*"}

sanitize_filename(filename) ==
    [k \in 1..Len(filename) |->
        IF filename[k] \in InvalidFilenameChars THEN "_" ELSE filename[k]]

\* ------------------------------------------------------ dictionaries, None
\* Python's None, and the empty dict: both are falsy and hold no key.
None == <<>>

\* bool(d) of a dict or None.
Truthy(d) == DOMAIN d # {}

\* No access token has been assigned yet.
NoToken == ""

\* ------------------------------------------------------------ sample data
\* What the identity provider can answer.
TokenResult == [access_token |-> "token"]
ErrorResult == [error |-> "access_denied", error_description |-> "declined"]

\* acquire_token_silent returns a result with a token, or None.
SilentResults == {TokenResult, None}
\* acquire_token_interactive returns a result with a token, or an error dict.
InteractiveResults == {TokenResult, ErrorResult}

\* The task lists of the account. A response of the lists request carries a
\* run of at most MaxLists of them (none when the request did not succeed).
RemoteLists ==
    << [id |-> "L1", displayName |-> Chars("attachment:x")],
       [id |-> "L2", displayName |-> Chars("attachment_x")],
       [id |-> "L3", displayName |-> Chars("c")] >>

ListResponses ==
    {SubSeq(RemoteLists, w[1], w[2]) :
        w \in {v \in (1..Len(RemoteLists) + 1) \X (0..Len(RemoteLists)) :
                  v[2] - v[1] + 1 \in 0..MaxLists}}

\* Sample tasks: every kind of body the export distinguishes.
T1 == [id |-> "t1", title |-> "milk", status |-> "completed",
       dueDateTime |-> [dateTime |-> "2024-05-01T00:00:00"],
       reminderDateTime |-> None,
       body |-> [contentType |-> "html",
                 content |-> <<"<", "b", ">", "a", "<", "/", "b", ">">>]]
T2 == [id |-> "t2", title |-> "eggs", status |-> "notStarted",
       dueDateTime |-> None,
       reminderDateTime |-> [dateTime |-> "2024-05-02T08:00:00"],
       body |-> [contentType |-> "html", content |-> <<"<", "b", "r", ">">>]]
T3 == [id |-> "t3", title |-> "call", status |-> "inProgress",
       dueDateTime |-> None, reminderDateTime |-> None,
       body |-> [contentType |-> "text", content |-> <<"a", " ", "\n">>]]
T4 == [id |-> "t4", title |-> "walk", status |-> "completed",
       dueDateTime |-> None, reminderDateTime |-> None,
       body |-> [contentType |-> "text", content |-> <<" ">>]]
T5 == [id |-> "t5", title |-> "read", status |-> "notStarted",
       dueDateTime |-> None, reminderDateTime |-> None,
       body |-> None]

\* What a tasks request can return; <<>> also stands for a non-success
\* response, whose json has no 'value'.
TaskResponses == {<<>>, <<T1, T2>>, <<T3>>, <<T4, T5>>}

FileAttachment == "#microsoft.graph.taskFileAttachment"
LinkAttachment == "#microsoft.graph.taskReferenceAttachment"

\* Sample attachments: a file, a link, a file named like the document of a
\* list "attachment_x" exported in markdown at second 0 and longer than that
\* document, and a file whose name holds a path separator.
A1 == [id |-> "x1", name |-> "f.txt", size |-> 12, odata_type |-> FileAttachment]
A2 == [id |-> "x2", name |-> "g.url", size |-> 7, odata_type |-> LinkAttachment]
A3 == [id |-> "x3", name |-> "x_20260101_000000.md", size |-> 256,
       odata_type |-> FileAttachment]
A4 == [id |-> "x4", name |-> "a/b.txt", size |-> 9, odata_type |-> FileAttachment]

\* The attachments the account holds for a task.
RemoteAttachments(task_id) ==
    CASE task_id = "t1" -> <<A1, A2>>
      [] task_id = "t3" -> <<A4, A3>>
      [] OTHER -> <<>>

\* attachment_content_response.content: the bytes of the attachment.
ResponseContent(attachment) == [k \in 1..attachment.size |-> "#"]

\* What an attachments request can return: the attachments of the task, or
\* nothing (no attachment, or a non-success response).
AttachmentResponses(task_id) == {RemoteAttachments(task_id), <<>>}

\* Status codes of an attachment content request.
StatusCodes == {200, 404}

\* html2text's HTML2Text.handle on the sample bodies (the converter is a
\* library; these are its outputs for the sample contents).
h_handle(content) ==
    CASE content = T1.body.content -> <<"*", "*", "a", "*", "*", "\n", "\n">>
      [] content = T2.body.content -> <<" ", " ", "\n", "\n", "\n">>
      [] content = T3.body.content -> <<"a", "\n", "\n">>
      [] OTHER -> <<"\n", "\n">>

\* content_type.lower() == 'html': the four letters in either case. (No other
\* character lowers to one of h, t, m, l.)
IsHtml(content_type) ==
    /\ Len(content_type) = 4
    /\ SubSeq(content_type, 1, 1) \in {"h", "H"}
    /\ SubSeq(content_type, 2, 2) \in {"t", "T"}
    /\ SubSeq(content_type, 3, 3) \in {"m", "M"}
    /\ SubSeq(content_type, 4, 4) \in {"l", "L"}

\* ---------------------------------------------------------------- variables
VARIABLES
    SAVE_AS_MARKDOWN,   \* configuration: markdown (TRUE) or plain text
    SAVE_ATTACHMENTS,   \* configuration: download file attachments
    pc,                 \* where the script is
    cache_file,         \* GRAPH_API_TOKEN_CACHE on disk: [exists, data]
    token_cache,        \* the SerializableTokenCache: the accounts it holds
    accounts,           \* app.get_accounts()
    result,             \* the last acquisition result
    access_token,
    now,                \* the wall clock: seconds since the run started
    lists,              \* the lists response
    li,                 \* index of the list being processed
    tasks,              \* the tasks response of the current list
    ti,                 \* index of the task being processed
    is_first_task,
    filename,           \* file of the current list
    file,               \* the open document: the text written, not yet on disk
    fs,                 \* the files on disk: name -> fragments
    log,                \* what the run did, in order: <<op, a, b, c>>
    fetched,            \* per processed list: how many tasks its fetch gave
    stamps,             \* per computed filename: [list, time, filename]
    written,            \* per processed list: the fragments written for it
    task_out,           \* the last task processed and what was written for it
    cin,                \* CleanSpec: the text handed to clean_markdown
    cout,               \* CleanSpec: clean_markdown(cin)
    cout2,              \* CleanSpec: clean_markdown(cout)
    cstage              \* CleanSpec: "input", "cleaned", "recleaned"

cvars == <<cin, cout, cout2, cstage>>

config == <<SAVE_AS_MARKDOWN, SAVE_ATTACHMENTS>>
auth == <<cache_file, token_cache, accounts, result, access_token>>
export == <<now, lists, li, tasks, ti, is_first_task, filename, file, fs,
            fetched, stamps, written, task_out>>

vars == <<config, pc, auth, export, log, cvars>>

\* ------------------------------------------------------------------ the log
\* Events <<op, a, b, c>>:
\*   cache_load   a = 1 when the cache file existed and was read
\*   silent, interactive, manual   an acquisition attempt; a = 1 when it
\*                yielded an access token
\*   cache_write  save_cache wrote the cache file
\*   print_error  the provider's error and description were printed
\*   lists        the lists request
\*   tasks        the tasks request of list a
\*   attachments  the attachments request of task b of list a
\*   content      the content request of attachment c of task b of list a
\*   open         the document of list a was opened for writing
\*   save         the file of attachment c of task b of list a was written
\*   notice       the completion notice of list a was printed
Ev(op, a, b, c) == <<op, a, b, c>>

Attempts == {"silent", "interactive", "manual"}
Requests == {"lists", "tasks", "attachments", "content"}
FileWrites == {"open", "save"}

Count(op) == Cardinality({k \in 1..Len(log) : log[k][1] = op})

Bit(b) == IF b THEN 1 ELSE 0

\* ------------------------------------------------------------ authentication
Init ==
    /\ SAVE_AS_MARKDOWN \in BOOLEAN
    /\ SAVE_ATTACHMENTS \in BOOLEAN
    /\ pc = "start"
    /\ cache_file \in {[exists |-> FALSE, data |-> <<>>],
                       [exists |-> TRUE, data |-> <<>>],
                       [exists |-> TRUE, data |-> <<"user">>]}
    /\ token_cache = <<>>
    /\ accounts = <<>>
    /\ result = None
    /\ access_token = NoToken
    /\ now = 0
    /\ lists = <<>>
    /\ li = 0
    /\ tasks = <<>>
    /\ ti = 0
    /\ is_first_task = TRUE
    /\ filename = <<>>
    /\ file = <<>>
    /\ fs = <<>>
    /\ log = <<>>
    /\ fetched = <<>>
    /\ stamps = <<>>
    /\ written = <<>>
    /\ task_out = [list |-> 0, index |-> 0, task |-> None, attachments |-> <<>>,
                   statuses |-> <<>>, frags |-> <<>>]
    /\ cin = <<>>
    /\ cout = <<>>
    /\ cout2 = <<>>
    /\ cstage = "main"

\* get_or_create_cache(): a fresh cache, filled from the cache file when the
\* file exists.
get_or_create_cache ==
    /\ pc = "start"
    /\ token_cache' = IF cache_file.exists THEN cache_file.data ELSE <<>>
    /\ log' = Append(log, Ev("cache_load", Bit(cache_file.exists), 0, 0))
    /\ pc' = "accounts"
    /\ UNCHANGED <<config, cache_file, accounts, result, access_token, export, cvars>>

\* accounts = app.get_accounts(); if accounts: ... else: ...
GetAccounts ==
    /\ pc = "accounts"
    /\ accounts' = token_cache
    /\ pc' = IF accounts' # <<>> THEN "silent" ELSE "interactive"
    /\ UNCHANGED <<config, cache_file, token_cache, result, access_token, export,
                   log, cvars>>

\* Variant: the interactive acquisition follows the silent one whatever it gave.
AfterSilentAlwaysInteractive(r) == "interactive"

\* Variant: a silent token goes past save_cache.
AfterSilentSkipSave(r) == IF Truthy(r) THEN "fallback_check" ELSE "interactive"

\* Where the script goes after acquire_token_silent returned r.
AfterSilent(r) == IF Truthy(r) THEN "save_cache" ELSE "interactive"

\* result = app.acquire_token_silent(SCOPES, account=accounts[0])
AcquireSilent ==
    /\ pc = "silent"
    /\ \E r \in SilentResults :
        /\ result' = r
        /\ access_token' = IF Truthy(r) THEN r.access_token ELSE access_token
        /\ log' = Append(log, Ev("silent", Bit(Truthy(r)), 0, 0))
        /\ pc' = AfterSilent(r)
    /\ UNCHANGED <<config, cache_file, token_cache, accounts, export, cvars>>

\* Variant: the exit() after a failed interactive acquisition is missing.
AfterInteractiveNoExit(r) == "save_cache"

\* Where the script goes after acquire_token_interactive returned r.
AfterInteractive(r) ==
    IF "access_token" \in DOMAIN r THEN "save_cache" ELSE "aborted"

\* result = app.acquire_token_interactive(SCOPES), in either branch; without
\* a token the error is printed and the script exits.
AcquireInteractive ==
    /\ pc = "interactive"
    /\ \E r \in InteractiveResults :
        LET ok == "access_token" \in DOMAIN r IN
        /\ result' = r
        /\ access_token' = IF ok THEN r.access_token ELSE access_token
        /\ token_cache' = IF ok THEN <<"user">> ELSE token_cache
        /\ log' = log \o <<Ev("interactive", Bit(ok), 0, 0)>>
                      \o (IF ok THEN <<>> ELSE <<Ev("print_error", 0, 0, 0)>>)
        /\ pc' = AfterInteractive(r)
    /\ UNCHANGED <<config, cache_file, accounts, export, cvars>>

\* save_cache(cache): the cache file is overwritten with the serialized cache.
save_cache(cache) == [exists |-> TRUE, data |-> cache]

SaveCache ==
    /\ pc = "save_cache"
    /\ cache_file' = save_cache(token_cache)
    /\ log' = Append(log, Ev("cache_write", 0, 0, 0))
    /\ pc' = "fallback_check"
    /\ UNCHANGED <<config, token_cache, accounts, result, access_token, export, cvars>>

\* What the authorization-code exchange of the manual flow can end in: a
\* result with a token, an error dict, or an exception (caught: exit).
ManualOutcomes == {"token", "error", "raise"}

\* if not result: the manual authorization-code flow: print the auth_uri,
\* read the pasted redirect URL, parse code and state, exchange them.
ManualFallback ==
    /\ pc = "fallback_check"
    /\ IF ~Truthy(result)
       THEN \E o \in ManualOutcomes :
              /\ result' = CASE o = "token" -> TokenResult
                             [] o = "error" -> ErrorResult
                             [] OTHER -> result
              /\ token_cache' = IF o = "token" THEN <<"user">> ELSE token_cache
              /\ log' = log \o <<Ev("manual", Bit(o = "token"), 0, 0)>>
                            \o (IF o = "raise" THEN <<Ev("print_error", 0, 0, 0)>>
                                ELSE <<>>)
              /\ pc' = IF o = "raise" THEN "aborted" ELSE "token_check"
       ELSE /\ pc' = "token_check"
            /\ UNCHANGED <<result, token_cache, log>>
    /\ UNCHANGED <<config, cache_file, accounts, access_token, export, cvars>>

\* if "access_token" not in result: print the error and exit.
TokenCheck ==
    /\ pc = "token_check"
    /\ IF "access_token" \notin DOMAIN result
       THEN /\ log' = Append(log, Ev("print_error", 0, 0, 0))
            /\ pc' = "aborted"
       ELSE /\ pc' = "fetch_lists"
            /\ UNCHANGED log
    /\ UNCHANGED <<config, auth, export, cvars>>

\* ------------------------------------------------------------------- export
\* The fragment the markdown variant writes (m) or the plain one (t).
Variant(m, t) == IF SAVE_AS_MARKDOWN THEN m ELSE t

\* datetime.now().strftime("%Y%m%d_%H%M%S") at second t of the minute that
\* starts on 2026-01-01 at 00:00:00.
strftime(t) == Chars("20260101_0000") \o <<ToString(t \div 10), ToString(t % 10)>>

\* f"{list_name}_{current_time}.md" / ".txt"
Filename(list_name, current_time) ==
    list_name \o Chars("_") \o current_time \o Chars(Variant(".md", ".txt"))

\* attachment_filename = f"attachment_{attachment['name']}"
AttachmentFilename(attachment) == Chars("attachment_") \o Chars(attachment.name)

\* open(name, 'wb') raises FileNotFoundError: the name leads into a directory,
\* and the working directory has none.
OpenFails(name) == \E k \in 1..Len(name) : name[k] = "/"

\* open(name, 'w') / open(name, 'wb'): the file exists and is empty.
OpenForWrite(f, name) ==
    [x \in DOMAIN f \cup {name} |-> IF x = name THEN <<>> ELSE f[x]]

\* file.write of each of frags, in order, on a file opened under name and
\* closed right after.
Write(f, name, frags) == [f EXCEPT ![name] = @ \o frags]

\* The characters of a fragment, and of a sequence of fragments (halving
\* keeps the recursion shallow on long contents).
RECURSIVE FlatStrings(_)
FlatStrings(frag) ==
    IF frag = <<>> THEN <<>>
    ELSE IF Len(frag) = 1 THEN Chars(frag[1])
    ELSE LET h == Len(frag) \div 2
         IN  FlatStrings(SubSeq(frag, 1, h)) \o FlatStrings(SubSeq(frag, h + 1, Len(frag)))

RECURSIVE Flat(_)
Flat(frags) ==
    IF frags = <<>> THEN <<>>
    ELSE IF Len(frags) = 1 THEN FlatStrings(frags[1])
    ELSE LET h == Len(frags) \div 2
         IN  Flat(SubSeq(frags, 1, h)) \o Flat(SubSeq(frags, h + 1, Len(frags)))

\* The end of the with block on the document: the buffered text is written
\* from the start of the file name. What an attachment saved under the same
\* name has left there is written over, and stays where the text ends before
\* it does.
Close(f, name, text) ==
    LET old == Flat(f[name])
        rest == IF old = <<>> THEN <<>>
                ELSE SubSeq(old, Len(Flat(text)) + 1, Len(old))
    IN  [f EXCEPT ![name] = text \o (IF rest = <<>> THEN <<>> ELSE <<rest>>)]

\* Variant: empty lists are not skipped.
SkipNever(task_seq) == FALSE

\* if not tasks: continue
SkipList(task_seq) == task_seq = <<>>

Header(task_list) ==
    <<Variant("# List: ", "List: ")>> \o task_list.displayName \o <<"\n\n\n">>

\* Variant: the type tag is not looked at.
ShouldDownloadAnyType(attachment) == SAVE_ATTACHMENTS

\* if SAVE_ATTACHMENTS and attachment['@odata.type'] == '#microsoft.graph.taskFileAttachment'
ShouldDownload(attachment) ==
    SAVE_ATTACHMENTS /\ attachment.odata_type = FileAttachment

\* The attachments whose content can be requested.
DownloadIdx(atts) == {k \in 1..Len(atts) : ShouldDownload(atts[k])}

\* attachment_content_response.status_code == 200
Saved(atts, st, k) == ShouldDownload(atts[k]) /\ st[k] = 200

\* The open of the attachment file of attachment k raises.
Raises(atts, st, k) == Saved(atts, st, k) /\ OpenFails(AttachmentFilename(atts[k]))

\* The attachment loop ends in an exception.
Raised(atts, st) == \E k \in 1..Len(atts) : Raises(atts, st, k)

AttachmentLine(a) ==
    <<Variant("- ", "    - "), a.name, " (Size: ", ToString(a.size), " bytes)\n">>

SavedLine(a) ==
    <<Variant("  - Saved attachment: ", "      Saved attachment: "),
      "attachment_", a.name, "\n">>

\* for attachment in attachments: what is written to the document, up to
\* the end of the loop or the exception.
RECURSIVE AttachmentFrags(_, _, _)
AttachmentFrags(atts, st, k) ==
    IF k > Len(atts) THEN <<>>
    ELSE <<AttachmentLine(atts[k])>>
         \o (IF Raises(atts, st, k) THEN <<>>
             ELSE (IF Saved(atts, st, k) THEN <<SavedLine(atts[k])>> ELSE <<>>)
                  \o AttachmentFrags(atts, st, k + 1))

\* for attachment in attachments: the content requests and file writes.
RECURSIVE AttachmentEvents(_, _, _, _, _)
AttachmentEvents(l, t, atts, st, k) ==
    IF k > Len(atts) THEN <<>>
    ELSE (IF ShouldDownload(atts[k]) THEN <<Ev("content", l, t, k)>> ELSE <<>>)
         \o (IF Raises(atts, st, k) THEN <<>>
             ELSE (IF Saved(atts, st, k) THEN <<Ev("save", l, t, k)>> ELSE <<>>)
                  \o AttachmentEvents(l, t, atts, st, k + 1))

\* for attachment in attachments: the attachment files written, each opened,
\* written and closed while the document is open.
RECURSIVE AttachmentFiles(_, _, _, _)
AttachmentFiles(f, atts, st, k) ==
    IF k > Len(atts) \/ Raises(atts, st, k) THEN f
    ELSE IF Saved(atts, st, k)
         THEN LET name == AttachmentFilename(atts[k])
              IN  AttachmentFiles(Write(OpenForWrite(f, name), name,
                                        <<ResponseContent(atts[k])>>),
                                  atts, st, k + 1)
         ELSE AttachmentFiles(f, atts, st, k + 1)

\* file.write(markdown_content) for an html body, file.write(content) otherwise.
MarkdownContent(content_type, content, markdown_content) ==
    IF IsHtml(content_type) THEN markdown_content ELSE content

\* if task.get('body'): ... what is written for the body of the task.
BodyFrags(task) ==
    IF ~Truthy(task.body) THEN <<>>
    ELSE LET content_type == task.body.contentType
             content == task.body.content
         IN  IF SAVE_AS_MARKDOWN
             THEN LET markdown_content == clean_markdown(h_handle(content))
                  IN  IF markdown_content # <<>> /\ Strip(markdown_content) # <<>>
                      THEN << <<"### Content:">>,
                              MarkdownContent(content_type, content, markdown_content),
                              <<"\n">> >>
                      ELSE <<>>
             ELSE << <<"  Content: ">> \o content \o <<"\n">> >>

\* Everything one iteration of "for task in tasks" writes to the document;
\* an exception in the attachment loop ends it before the body.
TaskFrags(task, first, atts, st) ==
    (IF first THEN <<>> ELSE << <<"\n\n">> >>)
    \o << <<Variant("## Task: ", "  Task: "), task.title, "\n">> >>
    \o << <<Variant("### Status: ", "  Status: "),
            IF task.status = "completed" THEN "Completed" ELSE "Not Completed",
            "\n">> >>
    \o (IF Truthy(task.dueDateTime)
        THEN << <<Variant("### Due: ", "  Due: "), task.dueDateTime.dateTime, "\n">> >>
        ELSE <<>>)
    \o (IF Truthy(task.reminderDateTime)
        THEN << <<Variant("### Reminder: ", "  Reminder: "),
                  task.reminderDateTime.dateTime, "\n">> >>
        ELSE <<>>)
    \o (IF atts # <<>>
        THEN << <<Variant("### Attachments:\n", "  Attachments:\n")>> >>
             \o AttachmentFrags(atts, st, 1)
        ELSE <<>>)
    \o (IF Raised(atts, st) THEN <<>> ELSE BodyFrags(task))

\* lists = requests.get(GRAPH_API_URL + "delta").json().get('value', [])
FetchLists ==
    /\ pc = "fetch_lists"
    /\ \E resp \in ListResponses :
        /\ lists' = resp
        /\ li' = 1
    /\ log' = Append(log, Ev("lists", 0, 0, 0))
    /\ pc' = "list_loop"
    /\ UNCHANGED <<config, auth, now, tasks, ti, is_first_task, filename, file, fs,
                   fetched, stamps, written, task_out, cvars>>

\* One pass of "for task_list in lists" up to the task loop: the filename,
\* the tasks request, the skip of an empty list, or the open and the header.
BeginList ==
    /\ pc = "list_loop"
    /\ li <= Len(lists)
    /\ \E t \in now..MaxClock, resp \in TaskResponses :
        LET task_list == lists[li]
            list_name == sanitize_filename(task_list.displayName)
            name == Filename(list_name, strftime(t))
            skip == SkipList(resp)
            named == SAVE_AS_MARKDOWN \/ ~skip
        IN  /\ now' = t
            /\ tasks' = resp
            /\ fetched' = Append(fetched, Len(resp))
            /\ filename' = IF named THEN name ELSE filename
            /\ stamps' = IF named
                         THEN Append(stamps, [list |-> li, time |-> t,
                                              filename |-> name])
                         ELSE stamps
            /\ IF skip
               THEN /\ li' = li + 1
                    /\ pc' = "list_loop"
                    /\ log' = Append(log, Ev("tasks", li, 0, 0))
                    /\ written' = Append(written, <<>>)
                    /\ UNCHANGED <<file, fs, ti, is_first_task>>
               ELSE /\ fs' = OpenForWrite(fs, name)
                    /\ file' = <<Header(task_list)>>
                    /\ written' = Append(written, <<Header(task_list)>>)
                    /\ log' = log \o <<Ev("tasks", li, 0, 0), Ev("open", li, 0, 0)>>
                    /\ ti' = 1
                    /\ is_first_task' = TRUE
                    /\ pc' = "task_loop"
                    /\ UNCHANGED li
    /\ UNCHANGED <<config, auth, lists, task_out, cvars>>

\* One pass of "for task in tasks": title, status, due, reminder, the
\* attachments request and downloads, the body. When the open of an
\* attachment file raises, the with block closes the document and the script
\* ends.
ProcessTask ==
    /\ pc = "task_loop"
    /\ ti <= Len(tasks)
    /\ LET task == tasks[ti] IN
       \E atts \in AttachmentResponses(task.id) :
       \E st \in [DownloadIdx(atts) -> StatusCodes] :
        LET frags == TaskFrags(task, is_first_task, atts, st)
            disk == AttachmentFiles(fs, atts, st, 1)
        IN  /\ IF Raised(atts, st)
               THEN /\ fs' = Close(disk, filename, file \o frags)
                    /\ file' = <<>>
                    /\ pc' = "crashed"
               ELSE /\ fs' = disk
                    /\ file' = file \o frags
                    /\ pc' = pc
            /\ written' = [written EXCEPT ![li] = @ \o frags]
            /\ log' = log \o <<Ev("attachments", li, ti, 0)>>
                          \o AttachmentEvents(li, ti, atts, st, 1)
            /\ task_out' = [list |-> li, index |-> ti, task |-> task,
                            attachments |-> atts, statuses |-> st, frags |-> frags]
    /\ is_first_task' = FALSE
    /\ ti' = ti + 1
    /\ UNCHANGED <<config, auth, now, lists, li, tasks, filename, fetched,
                   stamps, cvars>>

\* The end of the with block and the completion notice of the list.
EndList ==
    /\ pc = "task_loop"
    /\ ti > Len(tasks)
    /\ fs' = Close(fs, filename, file)
    /\ file' = <<>>
    /\ log' = Append(log, Ev("notice", li, 0, 0))
    /\ li' = li + 1
    /\ pc' = "list_loop"
    /\ UNCHANGED <<config, auth, now, lists, tasks, ti, is_first_task, filename,
                   fetched, stamps, written, task_out, cvars>>

\* The list loop is exhausted: the script ends.
Finish ==
    /\ pc = "list_loop"
    /\ li > Len(lists)
    /\ pc' = "done"
    /\ UNCHANGED <<config, auth, export, log, cvars>>

Next ==
    \/ get_or_create_cache
    \/ GetAccounts
    \/ AcquireSilent
    \/ AcquireInteractive
    \/ SaveCache
    \/ ManualFallback
    \/ TokenCheck
    \/ FetchLists
    \/ BeginList
    \/ ProcessTask
    \/ EndList
    \/ Finish

Spec == Init /\ [][Next]_vars

\* ------------------------------------------------------- reading the log
Idx(op) == {k \in 1..Len(log) : log[k][1] = op}

\* The acquisition attempts, and those that yielded an access token.
AttemptIdx == {k \in 1..Len(log) : log[k][1] \in Attempts}
TokenIdx == {k \in AttemptIdx : log[k][2] = 1}

\* Place of a stage in the cascade silent, interactive, manual.
StageRank(op) == CASE op = "silent" -> 1 [] op = "interactive" -> 2 [] OTHER -> 3

\* The script is past the access-token checks.
Authenticated == pc \in {"fetch_lists", "list_loop", "task_loop", "done", "crashed"}

\* The manual authorization-code flow never runs: result is truthy whenever
\* "if not result" is reached.
ManualNeverAttempted == Count("manual") = 0

\* ------------------------------------------------------------------ claims
\* C1: the acquisition is a priority cascade: each stage is attempted at most
\* once, in the order silent, interactive, manual; after a stage yielded a
\* token no further stage is attempted; when an account is cached and the
\* silent acquisition yields a token, neither the interactive nor the manual
\* path runs.
C1_Cascade ==
    /\ \A op \in Attempts : Count(op) <= 1
    /\ \A i \in AttemptIdx : \A j \in AttemptIdx :
          i < j => StageRank(log[i][1]) < StageRank(log[j][1])
    /\ \A i \in TokenIdx : \A j \in AttemptIdx : j <= i
    /\ (\E k \in Idx("silent") : log[k][2] = 1)
          => accounts # <<>> /\ Count("interactive") = 0 /\ Count("manual") = 0

C1_Witness ==
    /\ pc = "done"
    /\ accounts # <<>>
    /\ \E k \in Idx("silent") : log[k][2] = 1
    /\ access_token # NoToken

\* C2: when the interactive acquisition yields no access token, the run
\* goes through the manual fallback (authorization URL, pasted redirect URL,
\* code and state, exchange) before it can end aborted.
C2_InteractiveFailureEntersManual ==
    (pc = "aborted" /\ \E k \in Idx("interactive") : log[k][2] = 0)
        => Count("manual") >= 1

\* C3: the cache is loaded (the cache file read, when there is one) before
\* any acquisition attempt; a run that is authenticated has written the cache
\* exactly once, after the attempt that yielded the token; no run writes the
\* cache more than once.
C3_CacheReadFirstWrittenOnce ==
    /\ AttemptIdx # {} => log[1][1] = "cache_load" /\ (\A k \in AttemptIdx : k > 1)
    /\ (Len(log) > 0 /\ Count("cache_write") = 0 /\ cache_file.exists)
          => log[1] = Ev("cache_load", 1, 0, 0)
    /\ Count("cache_write") <= 1
    /\ Authenticated =>
          /\ Count("cache_write") = 1
          /\ TokenIdx # {}
          /\ \A w \in Idx("cache_write") : \A k \in TokenIdx : k < w

C3_Witness ==
    /\ pc = "done"
    /\ log[1] = Ev("cache_load", 1, 0, 0)
    /\ \E k \in Idx("interactive") : log[k][2] = 1
    /\ Count("cache_write") = 1

\* A file of that name is the document of a list that had tasks.
IsDocument(f) ==
    \E k \in 1..Len(stamps) : stamps[k].filename = f /\ fetched[stamps[k].list] > 0

\* C4: a list gets a document exactly when its tasks request returned at
\* least one task: an empty response opens and writes no file and issues no
\* attachment request, a non-empty one opens exactly one document; in both
\* variants. Every file on disk is such a document or an attachment file.
C4_FileIffTasks ==
    /\ \A l \in 1..Len(fetched) :
          /\ Cardinality({k \in Idx("open") : log[k][2] = l})
                = IF fetched[l] > 0 THEN 1 ELSE 0
          /\ fetched[l] = 0 =>
                /\ written[l] = <<>>
                /\ \A k \in 1..Len(log) :
                      log[k][1] \in {"attachments", "content", "save"} => log[k][2] # l
    /\ \A f \in DOMAIN fs :
          IsDocument(f) \/ SubSeq(f, 1, 11) = Chars("attachment_")

C4_Witness ==
    /\ pc = "done"
    /\ ~SAVE_AS_MARKDOWN
    /\ \E l \in 1..Len(fetched) : fetched[l] = 0
    /\ \E l \in 1..Len(fetched) : fetched[l] > 0

\* What C7 says of the last task processed, which has a body.
ContentAsClaimed ==
    LET b == task_out.task.body
        cleaned == clean_markdown(h_handle(b.content))
        fr == task_out.frags
        n == Len(fr)
    IN  IF SAVE_AS_MARKDOWN
        THEN IF cleaned # <<>>
             THEN /\ n >= 3
                  /\ fr[n - 2] = <<"### Content:">>
                  /\ fr[n - 1] = IF b.contentType = "html" THEN cleaned
                                 ELSE b.content
                  /\ fr[n] = <<"\n">>
             ELSE \A k \in 1..n : fr[k] # <<"### Content:">>
        ELSE fr[n] = <<"  Content: ">> \o b.content \o <<"\n">>

\* C7: for a task with a body, the markdown variant writes a "Content:"
\* section exactly when the converted and cleaned body is not empty, whatever
\* the content type, and the section then carries the cleaned conversion of
\* an html body and the raw content of any other; the plain variant always
\* writes a "Content:" line with the raw content, blank or not. (Violated:
\* when the open of an attachment file raises, the script ends before the
\* body of the task.)
C7_ContentSection ==
    (task_out.index > 0 /\ Truthy(task_out.task.body)) => ContentAsClaimed

\* The body is rendered as C7 says whenever the attachment loop ends without
\* an exception.
ContentSectionUnlessRaised ==
    (/\ task_out.index > 0
     /\ Truthy(task_out.task.body)
     /\ ~Raised(task_out.attachments, task_out.statuses)) => ContentAsClaimed

\* What C8 says of the documents stamped i-th and j-th.
SameNameClaim(i, j) ==
    LET a == stamps[i]
        b == stamps[j]
    IN  (/\ i < j
         /\ fetched[a.list] > 0
         /\ fetched[b.list] > 0
         /\ sanitize_filename(lists[a.list].displayName)
               = sanitize_filename(lists[b.list].displayName))
        => /\ (a.filename # b.filename) <=> (a.time # b.time)
           /\ (/\ pc \in {"done", "crashed"}
               /\ a.time = b.time
               /\ \A k \in j + 1..Len(stamps) :
                     fetched[stamps[k].list] > 0 => stamps[k].filename # b.filename)
              => fs[b.filename] = written[b.list]

\* C8: two non-empty lists of one run whose sanitized display names are equal
\* get different filenames exactly when their timestamps differ; when the
\* timestamps are equal the later document overwrites the earlier, and after
\* the run the file holds the later list's document only. (Violated: an
\* attachment saved under the name of the open document leaves its tail
\* behind the document's text.)
C8_FilenamesAndOverwrite ==
    \A i \in 1..Len(stamps) : \A j \in 1..Len(stamps) : SameNameClaim(i, j)

\* C8 holds of every run that saves no attachment.
OverwriteUnlessAttachmentSaved ==
    Count("save") = 0 =>
        \A i \in 1..Len(stamps) : \A j \in 1..Len(stamps) : SameNameClaim(i, j)

\* C9: in both variants the content of an attachment is requested only when
\* attachment saving is on and the attachment is a file attachment; the
\* attachment file and the "Saved attachment" line are written only when the
\* request returned 200; on another status neither is written and the next
\* attachment is still listed.
C9_AttachmentDownloads ==
    /\ task_out.index > 0 =>
          LET atts == task_out.attachments
              st == task_out.statuses
              Requested(k) == \E e \in Idx("content") :
                                 log[e] = Ev("content", task_out.list, task_out.index, k)
              WasSaved(k) == \E e \in Idx("save") :
                                 log[e] = Ev("save", task_out.list, task_out.index, k)
              Noted(k) == \E q \in 1..Len(task_out.frags) :
                                 task_out.frags[q] = SavedLine(atts[k])
          IN  \A k \in 1..Len(atts) :
                /\ Requested(k) =>
                      SAVE_ATTACHMENTS /\ atts[k].odata_type = FileAttachment
                /\ WasSaved(k) => Requested(k) /\ st[k] = 200
                /\ Noted(k) => WasSaved(k)
                /\ (Requested(k) /\ st[k] # 200) =>
                      /\ ~WasSaved(k)
                      /\ ~Noted(k)
                      /\ k < Len(atts) =>
                            \E q \in 1..Len(task_out.frags) :
                               task_out.frags[q] = AttachmentLine(atts[k + 1])
    /\ \A f \in DOMAIN fs : ~IsDocument(f) => Count("save") > 0

C9_Witness ==
    /\ ~SAVE_AS_MARKDOWN
    /\ SAVE_ATTACHMENTS
    /\ task_out.index > 0
    /\ Len(task_out.attachments) = 2
    /\ task_out.attachments[1].odata_type = FileAttachment
    /\ task_out.statuses[1] = 404
    /\ Count("save") = 0
    /\ \E q \in 1..Len(task_out.frags) :
          task_out.frags[q] = AttachmentLine(task_out.attachments[2])

\* C10: a run that ends without an access token ends right after the failed
\* attempt and its error report, with no stage tried twice, and has written
\* neither the cache file nor any other file and issued no API request;
\* every API request and every file write follows an attempt that yielded a
\* token.
C10_NothingWithoutToken ==
    /\ pc = "aborted" =>
          /\ Len(log) >= 2
          /\ log[Len(log)] = Ev("print_error", 0, 0, 0)
          /\ log[Len(log) - 1][1] \in Attempts
          /\ log[Len(log) - 1][2] = 0
          /\ TokenIdx = {}
          /\ \A op \in Attempts : Count(op) <= 1
          /\ \A k \in 1..Len(log) :
                log[k][1] \notin Requests \cup FileWrites \cup {"cache_write"}
          /\ DOMAIN fs = {}
          /\ ~cache_file.exists \/ log[1] = Ev("cache_load", 1, 0, 0)
    /\ \A k \in 1..Len(log) :
          log[k][1] \in Requests \cup FileWrites \cup {"cache_write"}
              => \E j \in TokenIdx : j < k
    /\ DOMAIN fs # {} => access_token # NoToken

C10_Witness ==
    /\ pc = "aborted"
    /\ \E k \in Idx("interactive") : log[k][2] = 0
    /\ Count("print_error") = 1

\* ------------------------------------------------- clean_markdown on its own
Texts == UNION {[1..n -> Alphabet] : n \in 0..MaxLen}

CleanInit ==
    /\ cin \in Texts
    /\ cout = <<>>
    /\ cout2 = <<>>
    /\ cstage = "input"
    /\ SAVE_AS_MARKDOWN = TRUE
    /\ SAVE_ATTACHMENTS = FALSE
    /\ pc = "clean"
    /\ cache_file = [exists |-> FALSE, data |-> <<>>]
    /\ token_cache = <<>>
    /\ accounts = <<>>
    /\ result = None
    /\ access_token = NoToken
    /\ now = 0
    /\ lists = <<>>
    /\ li = 0
    /\ tasks = <<>>
    /\ ti = 0
    /\ is_first_task = TRUE
    /\ filename = <<>>
    /\ file = <<>>
    /\ fs = <<>>
    /\ log = <<>>
    /\ fetched = <<>>
    /\ stamps = <<>>
    /\ written = <<>>
    /\ task_out = [list |-> 0, index |-> 0, task |-> None, attachments |-> <<>>,
                   statuses |-> <<>>, frags |-> <<>>]

Clean ==
    /\ cstage = "input"
    /\ cout' = clean_markdown(cin)
    /\ cstage' = "cleaned"
    /\ UNCHANGED <<cin, cout2, config, pc, auth, export, log>>

CleanAgain ==
    /\ cstage = "cleaned"
    /\ cout2' = clean_markdown(cout)
    /\ cstage' = "recleaned"
    /\ UNCHANGED <<cin, cout, config, pc, auth, export, log>>

CleanNext == Clean \/ CleanAgain

CleanSpec == CleanInit /\ [][CleanNext]_vars

\* Three newlines in a row somewhere in s.
HasTripleNewline(s) ==
    \E k \in 1..Len(s) - 2 : s[k] = "\n" /\ s[k + 1] = "\n" /\ s[k + 2] = "\n"

\* Some line of s ends in a space or a tab.
HasTrailingWhitespace(s) ==
    \E k \in 1..Len(s) : s[k] \in {" ", "\t"} /\ (k = Len(s) \/ s[k + 1] = "\n")

\* C5: clean_markdown is idempotent: cleaning a cleaned text changes nothing.
C5_Idempotent == cstage = "recleaned" => cout2 = cout

\* C6: the output of clean_markdown has no run of three or more newlines and
\* no line that ends in a space or a tab.
C6_NoTripleNewlineNoTrailingWhitespace ==
    cstage # "input" => ~HasTripleNewline(cout) /\ ~HasTrailingWhitespace(cout)

====
